---- MODULE Spec2Model ----
(***************************************************************************)
(* A model of phone_numbers.py: number classification, call parsing, the   *)
(* tariff with its process-wide free-minute allowances, and the search for *)
(* the most expensive number of a call log.                                *)
(*                                                                         *)
(* Representation of Python values:                                        *)
(*   - a phone number string and each component of a duration string is a  *)
(*     sequence of one-character strings;                                  *)
(*   - a CSV line (after rstrip) is the sequence of its comma-free fields, *)
(*     which is what split(',') returns; a duration string is likewise the *)
(*     sequence of its colon-free components;                              *)
(*   - an optional value is <<>> (None) or <<v>>;                          *)
(*   - the outcome of a call is [raised, value]: raised names the exception*)
(*     type that escaped, "none" when the call returned.                   *)
(***************************************************************************)
EXTENDS Integers, Sequences, FiniteSets, TLC

VARIABLES
    international_allowance,     \* module global, line 105
    landline_mobile_allowance,   \* module global, line 106
    number_table,                \* findMostExpensiveNumber's dict, in insertion order
    call,                        \* the PhoneCall constructed last
    pc,                          \* where findMostExpensiveNumber is
    lineno,                      \* lines the current run has read from its file
    ncalls,                      \* PhoneCall constructions attempted in the process
    granted,                     \* free_minutes of all calls constructed, summed by class
    ret                          \* the last operation: its name, argument and outcome

vars == <<international_allowance, landline_mobile_allowance, number_table,
          call, pc, lineno, ncalls, granted, ret>>

-----------------------------------------------------------------------------
(* Bounds *)

\* longest raw number string handed to from_string on its own
MaxLen == 5
\* lines read from call logs over the life of the process
MaxLines == 3
\* PhoneCall constructions made directly through from_csv
MaxCalls == 2

-----------------------------------------------------------------------------
(* Strings *)

Min(a, b) == IF a <= b THEN a ELSE b

\* s[i:j] for 0 <= i <= j
Slice(s, i, j) == SubSeq(s, i + 1, Min(j, Len(s)))

\* s[i:]
SliceFrom(s, i) == SubSeq(s, i + 1, Len(s))

StartsWith(s, p) == Len(s) >= Len(p) /\ SubSeq(s, 1, Len(p)) = p

RECURSIVE ReplacePlus(_)
\* number.replace('+', '00')
ReplacePlus(s) ==
    IF s = <<>> THEN <<>>
    ELSE (IF Head(s) = "+" THEN <<"0", "0">> ELSE <<Head(s)>>) \o ReplacePlus(Tail(s))

\* the two normalisation steps of from_string
Normalize(number) ==
    LET n1 == ReplacePlus(number)
    IN  IF StartsWith(n1, <<"0", "0", "4", "4">>) THEN <<"0">> \o SliceFrom(n1, 4) ELSE n1

-----------------------------------------------------------------------------
(* Number classes *)

None == <<>>

InternationalNumber == [name |-> "InternationalNumber", cost_per_minute |-> 80,
                        connection_charge |-> 50, off_peak_divider |-> None]
LandlineNumber == [name |-> "LandlineNumber", cost_per_minute |-> 15,
                   connection_charge |-> 0, off_peak_divider |-> <<3>>]
MobileNumber == [name |-> "MobileNumber", cost_per_minute |-> 30,
                 connection_charge |-> 0, off_peak_divider |-> <<3>>]
FreeNumber == [name |-> "FreeNumber", cost_per_minute |-> 0,
               connection_charge |-> 0, off_peak_divider |-> None]
InvalidNumber == [name |-> "InvalidNumber", cost_per_minute |-> 0,
                  connection_charge |-> 0, off_peak_divider |-> None]

Returned(v) == [raised |-> "none", value |-> <<v>>]
Raised(e) == [raised |-> e, value |-> None]

\* cls(number): a PhoneNumber instance
PhoneNumber(cls, number) == [cls |-> cls, number |-> number]

\* number[2] != '6' or number[0:5] == '07624', reached only when number[0:2] == '07'
MobileTest(number) ==
    IF Len(number) < 3 THEN Raised("IndexError")
    ELSE Returned(number[3] # "6" \/ Slice(number, 0, 5) = <<"0", "7", "6", "2", "4">>)

\* PhoneNumber.from_string
from_string(raw) ==
    LET number == Normalize(raw)
    IN  IF Slice(number, 0, 2) = <<"0", "0">> THEN
            Returned(PhoneNumber(InternationalNumber, number))
        ELSE IF Slice(number, 0, 2) \in {<<"0", "1">>, <<"0", "2">>} THEN
            Returned(PhoneNumber(LandlineNumber, number))
        ELSE IF Slice(number, 0, 3) = <<"0", "8", "0">> THEN
            Returned(PhoneNumber(FreeNumber, number))
        ELSE IF Slice(number, 0, 2) = <<"0", "7">> THEN
            LET t == MobileTest(number)
            IN  IF t.raised # "none" THEN Raised(t.raised)
                ELSE IF t.value[1] THEN Returned(PhoneNumber(MobileNumber, number))
                ELSE Returned(PhoneNumber(InvalidNumber, number))
        ELSE Returned(PhoneNumber(InvalidNumber, number))

-----------------------------------------------------------------------------
(* Start time *)

\* start_time.replace('Z', '+00:00'), on the timestamps of the model
ZForms ==
    ( "2019-08-29T07:59:59Z"     :> "2019-08-29T07:59:59+00:00"
   @@ "2019-08-29T08:00:00Z"     :> "2019-08-29T08:00:00+00:00"
   @@ "2019-08-29T11:28:05.666Z" :> "2019-08-29T11:28:05.666+00:00"
   @@ "2019-08-29T20:00:00Z"     :> "2019-08-29T20:00:00+00:00"
   @@ "2019-08-29T20:00:01Z"     :> "2019-08-29T20:00:01+00:00"
   @@ "2019-08-29T20:28:05.666Z" :> "2019-08-29T20:28:05.666+00:00" )

ReplaceZ(s) == IF s \in DOMAIN ZForms THEN ZForms[s] ELSE s

\* The time of day <<hour, minute, second, microsecond>> of each timestamp of
\* the model that datetime.fromisoformat accepts.
IsoTimes ==
    ( "2019-08-29T07:59:59+00:00"     :> <<7, 59, 59, 0>>
   @@ "2019-08-29T08:00:00+00:00"     :> <<8, 0, 0, 0>>
   @@ "2019-08-29T11:28:05.666+00:00" :> <<11, 28, 5, 666000>>
   @@ "2019-08-29T15:28:05.666+00:00" :> <<15, 28, 5, 666000>>
   @@ "2019-08-29T20:00:00+00:00"     :> <<20, 0, 0, 0>>
   @@ "2019-08-29T20:00:01+00:00"     :> <<20, 0, 1, 0>>
   @@ "2019-08-29T20:28:05.666+00:00" :> <<20, 28, 5, 666000>> )

\* datetime.datetime.fromisoformat(s).time(); ValueError on anything else
fromisoformat(s) ==
    IF s \in DOMAIN IsoTimes THEN [raised |-> "none", value |-> <<IsoTimes[s]>>]
    ELSE [raised |-> "ValueError", value |-> <<>>]

\* lines 122-129
ParseStartTime(start_time) ==
    LET r == fromisoformat(ReplaceZ(start_time))
    IN  IF r.raised # "none" THEN Raised("CallParseError") ELSE r

\* datetime.time.__lt__
TimeLess(a, b) ==
    \E i \in 1..4 : a[i] < b[i] /\ \A j \in 1..(i - 1) : a[j] = b[j]

peak_time_start == <<8, 0, 0, 0>>
peak_time_end == <<20, 0, 0, 0>>

-----------------------------------------------------------------------------
(* Duration *)

DigitVal ==
    ( "0" :> 0 @@ "1" :> 1 @@ "2" :> 2 @@ "3" :> 3 @@ "4" :> 4
   @@ "5" :> 5 @@ "6" :> 6 @@ "7" :> 7 @@ "8" :> 8 @@ "9" :> 9 )

IsDigits(s) == s # <<>> /\ \A i \in 1..Len(s) : s[i] \in DOMAIN DigitVal

RECURSIVE NatVal(_)
NatVal(s) ==
    IF s = <<>> THEN 0
    ELSE 10 * NatVal(SubSeq(s, 1, Len(s) - 1)) + DigitVal[s[Len(s)]]

\* int(s) of a string: an optional sign and decimal digits
int(s) ==
    IF s # <<>> /\ Head(s) = "-" /\ IsDigits(Tail(s)) THEN Returned(0 - NatVal(Tail(s)))
    ELSE IF s # <<>> /\ Head(s) = "+" /\ IsDigits(Tail(s)) THEN Returned(NatVal(Tail(s)))
    ELSE IF IsDigits(s) THEN Returned(NatVal(s))
    ELSE Raised("ValueError")

\* lines 133-143: the number of started minutes
ParseDuration(duration) ==
    IF Len(duration) # 2 THEN Raised("CallParseError")
    ELSE LET minutes == int(duration[1])
             seconds == int(duration[2])
         IN  IF minutes.raised # "none" \/ seconds.raised # "none" THEN
                 Raised("CallParseError")
             ELSE IF seconds.value[1] # 0 THEN Returned(minutes.value[1] + 1)
             ELSE Returned(minutes.value[1])

-----------------------------------------------------------------------------
(* PhoneCall *)

\* Direction(direction): the Enum lookup by value
Direction(direction) ==
    IF direction \in {"INCOMING", "OUTGOING"} THEN Returned(direction)
    ELSE Raised("ValueError")

NoCall ==
    [constructed |-> FALSE, number |-> PhoneNumber(InvalidNumber, <<>>),
     start_time |-> <<0, 0, 0, 0>>, duration |-> 0, direction |-> "INCOMING",
     has_free_minutes |-> FALSE, free_minutes |-> 0]

\* Allowance without the clamp to what remains: every minute is free
Allowance_Unclamped(cls, direction, duration, ia, lma) ==
    IF direction = "OUTGOING" /\ cls.name = "InternationalNumber" THEN
        [has_free_minutes |-> TRUE, free_minutes |-> duration,
         international_allowance |-> ia - duration, landline_mobile_allowance |-> lma]
    ELSE IF direction = "OUTGOING" /\ cls.name \in {"LandlineNumber", "MobileNumber"} THEN
        [has_free_minutes |-> TRUE, free_minutes |-> duration,
         international_allowance |-> ia, landline_mobile_allowance |-> lma - duration]
    ELSE
        [has_free_minutes |-> direction = "OUTGOING", free_minutes |-> 0,
         international_allowance |-> ia, landline_mobile_allowance |-> lma]

\* Allowance without the test of the direction: incoming calls use it too
Allowance_AnyDirection(cls, direction, duration, ia, lma) ==
    IF cls.name = "InternationalNumber" THEN
        [has_free_minutes |-> TRUE, free_minutes |-> Min(duration, ia),
         international_allowance |-> ia - Min(duration, ia),
         landline_mobile_allowance |-> lma]
    ELSE IF cls.name \in {"LandlineNumber", "MobileNumber"} THEN
        [has_free_minutes |-> TRUE, free_minutes |-> Min(duration, lma),
         international_allowance |-> ia,
         landline_mobile_allowance |-> lma - Min(duration, lma)]
    ELSE
        [has_free_minutes |-> TRUE, free_minutes |-> 0,
         international_allowance |-> ia, landline_mobile_allowance |-> lma]

\* lines 150-164: the free minutes of a call and the allowances it leaves.
\* An incoming call gets no free_minutes attribute at all.
Allowance(cls, direction, duration, ia, lma) ==
    IF direction = "OUTGOING" THEN
        IF cls.name = "InternationalNumber" THEN
            [has_free_minutes |-> TRUE, free_minutes |-> Min(duration, ia),
             international_allowance |-> ia - Min(duration, ia),
             landline_mobile_allowance |-> lma]
        ELSE IF cls.name \in {"LandlineNumber", "MobileNumber"} THEN
            [has_free_minutes |-> TRUE, free_minutes |-> Min(duration, lma),
             international_allowance |-> ia,
             landline_mobile_allowance |-> lma - Min(duration, lma)]
        ELSE
            [has_free_minutes |-> TRUE, free_minutes |-> 0,
             international_allowance |-> ia, landline_mobile_allowance |-> lma]
    ELSE
        [has_free_minutes |-> FALSE, free_minutes |-> 0,
         international_allowance |-> ia, landline_mobile_allowance |-> lma]

\* PhoneCall.__init__ with the allowances ia, lma: the outcome, the call and
\* the allowances afterwards
PhoneCallInit(number, start_time, duration, direction, ia, lma) ==
    LET failed(e) == [raised |-> e, call |-> NoCall,
                      international_allowance |-> ia, landline_mobile_allowance |-> lma]
        n == from_string(number)
        t == ParseStartTime(start_time)
        d == ParseDuration(duration)
        dir == Direction(direction)
    IN  IF n.raised # "none" THEN failed(n.raised)
        ELSE IF t.raised # "none" THEN failed(t.raised)
        ELSE IF d.raised # "none" THEN failed(d.raised)
        ELSE IF dir.raised # "none" THEN failed(dir.raised)
        ELSE LET a == Allowance(n.value[1].cls, dir.value[1], d.value[1], ia, lma)
             IN  [raised |-> "none",
                  call |-> [constructed |-> TRUE, number |-> n.value[1],
                            start_time |-> t.value[1], duration |-> d.value[1],
                            direction |-> dir.value[1],
                            has_free_minutes |-> a.has_free_minutes,
                            free_minutes |-> a.free_minutes],
                  international_allowance |-> a.international_allowance,
                  landline_mobile_allowance |-> a.landline_mobile_allowance]

\* PhoneCall.from_csv
from_csv(csv_line, ia, lma) ==
    IF Len(csv_line) # 4 THEN
        [raised |-> "CallParseError", call |-> NoCall,
         international_allowance |-> ia, landline_mobile_allowance |-> lma]
    ELSE PhoneCallInit(csv_line[1], csv_line[2], csv_line[3], csv_line[4], ia, lma)

\* lines 172-177
ChargeableMinutes(c, apply_allowance) ==
    IF apply_allowance THEN c.duration - c.free_minutes ELSE c.duration

\* OffPeak with the end of the peak compared by >= : 20:00:00 is off-peak
OffPeak_EndInclusive(start_time) ==
    TimeLess(start_time, peak_time_start) \/ ~TimeLess(start_time, peak_time_end)

\* lines 183-184
OffPeak(start_time) ==
    TimeLess(start_time, peak_time_start) \/ TimeLess(peak_time_end, start_time)

\* PhoneCall.cost
cost(c, apply_allowance) ==
    IF c.direction = "INCOMING" THEN 0
    ELSE LET full == c.number.cls.connection_charge
                     + ChargeableMinutes(c, apply_allowance) * c.number.cls.cost_per_minute
         IN  IF c.number.cls.off_peak_divider # None /\ OffPeak(c.start_time)
             THEN full \div c.number.cls.off_peak_divider[1]
             ELSE full

-----------------------------------------------------------------------------
(* findMostExpensiveNumber *)

\* number_table.setdefault(key, [key, 0])[1] += amount
Accumulate(table, key, amount) ==
    IF \E i \in 1..Len(table) : table[i][1] = key THEN
        [i \in 1..Len(table) |->
            IF table[i][1] = key THEN <<key, table[i][2] + amount>> ELSE table[i]]
    ELSE Append(table, <<key, amount>>)

\* x placed behind every entry of the sorted s whose total is at least x's
InsertDesc(x, s) ==
    LET k == Cardinality({i \in 1..Len(s) : s[i][2] >= x[2]})
    IN  SubSeq(s, 1, k) \o <<x>> \o SubSeq(s, k + 1, Len(s))

RECURSIVE SortedByCost(_)
\* sorted(values, key=lambda x: x[1], reverse=True): stable
SortedByCost(table) ==
    IF table = <<>> THEN <<>>
    ELSE InsertDesc(table[Len(table)], SortedByCost(SubSeq(table, 1, Len(table) - 1)))

\* '£%f' % (total / 100), for totals whose hundredth is exact to 6 decimals
FormatAmount(total) ==
    LET a == IF total < 0 THEN 0 - total ELSE total
        pence == a % 100
    IN  "£" \o (IF total < 0 THEN "-" ELSE "") \o ToString(a \div 100) \o "."
            \o (IF pence < 10 THEN "0" ELSE "") \o ToString(pence) \o "0000"

\* MostExpensive without the test for a tie
MostExpensive_NoTieCheck(table) ==
    LET two_most_expensive == Slice(SortedByCost(table), 0, 2)
    IN  IF Len(two_most_expensive) = 0 THEN
            [raised |-> "IndexError", value |-> None]
        ELSE IF two_most_expensive[1][2] = 0 THEN
            [raised |-> "none", value |-> None]
        ELSE
            [raised |-> "none",
             value |-> <<[PhoneNumber |-> two_most_expensive[1][1],
                          TotalAmount |-> FormatAmount(two_most_expensive[1][2])]>>]

\* lines 232-251: what findMostExpensiveNumber returns for a filled table
MostExpensive(table) ==
    LET two_most_expensive == Slice(SortedByCost(table), 0, 2)
    IN  IF Len(two_most_expensive) = 0 THEN
            [raised |-> "IndexError", value |-> None]
        ELSE IF two_most_expensive[1][2] = 0 THEN
            [raised |-> "none", value |-> None]
        ELSE IF Len(two_most_expensive) = 2
                /\ two_most_expensive[1][2] = two_most_expensive[2][2] THEN
            [raised |-> "none", value |-> None]
        ELSE
            [raised |-> "none",
             value |-> <<[PhoneNumber |-> two_most_expensive[1][1],
                          TotalAmount |-> FormatAmount(two_most_expensive[1][2])]>>]

-----------------------------------------------------------------------------
(* Inputs *)

Alphabet == {"0", "2", "4", "6", "7", "8", "+"}

RECURSIVE StringsOfLen(_)
StringsOfLen(n) ==
    IF n = 0 THEN {<<>>}
    ELSE {Append(s, c) : s \in StringsOfLen(n - 1), c \in Alphabet}

\* every string over Alphabet of at most max characters
NumberStrings(max) == UNION {StringsOfLen(n) : n \in 0..max}

\* "+1", "002" (international), "+441", "01" (one landline written two
\* ways), "077" (mobile), "080" (freephone), "05" (unassigned)
Intl1 == <<"+", "1">>
Intl2 == <<"0", "0", "2">>
Land1 == <<"+", "4", "4", "1">>
Land2 == <<"0", "1">>
Mob == <<"0", "7", "7">>
Free == <<"0", "8", "0">>
Unassigned == <<"0", "5">>

\* "12:36", "1:0", "5:30", "60:00", "-5:00", "0:-30", "12" and "ab:1"
D1236 == << <<"1", "2">>, <<"3", "6">> >>
D10 == << <<"1">>, <<"0">> >>
D530 == << <<"5">>, <<"3", "0">> >>
D6000 == << <<"6", "0">>, <<"0", "0">> >>
DMinus5 == << <<"-", "5">>, <<"0", "0">> >>
DMinus30s == << <<"0">>, <<"-", "3", "0">> >>
DNoColon == << <<"1", "2">> >>
DLetters == << <<"a", "b">>, <<"1">> >>

Peak == "2019-08-29T11:28:05.666Z"
OffPeakStart == "2019-08-29T20:00:01Z"

ValidTimes ==
    { "2019-08-29T07:59:59Z", "2019-08-29T08:00:00Z", Peak,
      "2019-08-29T20:00:00Z", OffPeakStart }

\* the records handed to from_csv one at a time: every category at every
\* start time, both directions, the fixtures of test_csv, and malformed ones
CallLines ==
    ({Intl1, Land1, Mob, Free, Unassigned} \X ValidTimes \X {D1236} \X {"OUTGOING"})
    \cup ({Land1, Mob} \X ValidTimes \X {DMinus5} \X {"OUTGOING"})
    \cup ({Intl1, Land1, Mob, Free, Unassigned} \X {Peak} \X {D10, D6000}
            \X {"INCOMING", "OUTGOING"})
    \cup { <<Mob, "2019-08-29T20:28:05.666Z", D1236, "OUTGOING">>,
           <<Mob, "2019-08-29T20:28:05.666Z", D1236, "INCOMING">>,
           <<Free, "2019-08-29T20:28:05.666Z", D1236, "OUTGOING">>,
           <<Intl1, "2019-08-29T15:28:05.666+00:00", D10, "OUTGOING">>,
           <<Intl1, Peak, DMinus5, "OUTGOING">>,
           <<Intl1, Peak, D530, "OUTGOING">>,
           <<Mob, Peak, DMinus30s, "OUTGOING">>,
           <<Mob, "yesterday", D10, "OUTGOING">>,
           <<Mob, Peak, DNoColon, "OUTGOING">>,
           <<Mob, Peak, DLetters, "OUTGOING">>,
           <<Mob, Peak, D10, "SIDEWAYS">>,
           <<Mob, Peak, D10>>,
           <<Mob, Peak, D10, "OUTGOING", "OUTGOING">> }

\* the lines of call logs
LogLines ==
    { <<Intl1, Peak, D530, "OUTGOING">>,
      <<Intl2, Peak, D530, "OUTGOING">>,
      <<Intl1, Peak, DMinus5, "OUTGOING">>,
      <<Intl2, Peak, DMinus5, "OUTGOING">>,
      <<Intl1, Peak, D1236, "OUTGOING">>,
      <<Intl1, Peak, D530, "INCOMING">>,
      <<Land1, Peak, D6000, "OUTGOING">>,
      <<Land2, OffPeakStart, D6000, "OUTGOING">>,
      <<Mob, Peak, D6000, "OUTGOING">>,
      <<Mob, OffPeakStart, D6000, "OUTGOING">>,
      <<Mob, Peak, DMinus5, "OUTGOING">>,
      <<Free, Peak, D530, "OUTGOING">>,
      <<Unassigned, Peak, D1236, "OUTGOING">>,
      <<Mob, "yesterday", D10, "OUTGOING">>,
      <<Mob, Peak, DNoColon, "OUTGOING">>,
      <<Mob, Peak, D10, "SIDEWAYS">>,
      <<<<"0", "7">>, Peak, D10, "OUTGOING">>,
      <<Mob, Peak, D10>> }

-----------------------------------------------------------------------------
(* State machine *)

Outcome(op, arg, raised, value) ==
    [op |-> op, arg |-> arg, raised |-> raised, value |-> value]

\* the free minutes handed out so far, with those of the new call c
GrantedWith(g, c) ==
    IF ~c.has_free_minutes THEN g
    ELSE IF c.number.cls.name = "InternationalNumber" THEN
        [g EXCEPT !.international = @ + c.free_minutes]
    ELSE IF c.number.cls.name \in {"LandlineNumber", "MobileNumber"} THEN
        [g EXCEPT !.landline_mobile = @ + c.free_minutes]
    ELSE g

Init ==
    /\ international_allowance = 10
    /\ landline_mobile_allowance = 100
    /\ number_table = <<>>
    /\ call = NoCall
    /\ pc = "idle"
    /\ lineno = 0
    /\ ncalls = 0
    /\ granted = [international |-> 0, landline_mobile |-> 0]
    /\ ret = Outcome("none", <<>>, "none", None)

\* PhoneNumber.from_string(s), called on its own
FromString(s) ==
    /\ ret.op = "none"
    /\ LET r == from_string(s)
       IN  ret' = Outcome("from_string", s, r.raised, r.value)
    /\ UNCHANGED <<international_allowance, landline_mobile_allowance, number_table,
                   call, pc, lineno, ncalls, granted>>

\* PhoneCall.from_csv(line), called on its own
FromCsv(line) ==
    /\ pc # "running"
    /\ ncalls < MaxCalls
    /\ LET r == from_csv(line, international_allowance, landline_mobile_allowance)
       IN  /\ international_allowance' = r.international_allowance
           /\ landline_mobile_allowance' = r.landline_mobile_allowance
           /\ call' = IF r.raised = "none" THEN r.call ELSE call
           /\ granted' = IF r.raised = "none" THEN GrantedWith(granted, r.call) ELSE granted
           /\ ret' = Outcome("from_csv", line, r.raised, None)
    /\ ncalls' = ncalls + 1
    /\ UNCHANGED <<number_table, pc, lineno>>

\* call.cost(apply_allowance) on the call constructed last
Cost(apply_allowance) ==
    /\ pc # "running"
    /\ call.constructed
    /\ ret' = Outcome("cost", <<apply_allowance>>, "none", <<cost(call, apply_allowance)>>)
    /\ UNCHANGED <<international_allowance, landline_mobile_allowance, number_table,
                   call, pc, lineno, ncalls, granted>>

\* findMostExpensiveNumber is called: lines 215-227
StartRun ==
    /\ pc # "running"
    /\ pc' = "running"
    /\ number_table' = <<>>
    /\ lineno' = 0
    /\ UNCHANGED <<international_allowance, landline_mobile_allowance, call, ncalls,
                   granted, ret>>

\* from_csv_file reads a line of length 1 and yields nothing for it
SkipBlankLine ==
    /\ pc = "running"
    /\ lineno < MaxLines
    /\ lineno' = lineno + 1
    /\ UNCHANGED <<international_allowance, landline_mobile_allowance, number_table,
                   call, pc, ncalls, granted, ret>>

\* from_csv_file yields the call of the next line and the loop of lines
\* 228-231 adds its cost; an exception ends the run
ReadLine(line) ==
    /\ pc = "running"
    /\ lineno < MaxLines
    /\ ncalls < MaxLines
    /\ LET r == from_csv(line, international_allowance, landline_mobile_allowance)
       IN  /\ international_allowance' = r.international_allowance
           /\ landline_mobile_allowance' = r.landline_mobile_allowance
           /\ IF r.raised = "none" THEN
                  /\ call' = r.call
                  /\ number_table' = Accumulate(number_table, r.call.number.number,
                                                cost(r.call, TRUE))
                  /\ granted' = GrantedWith(granted, r.call)
                  /\ UNCHANGED <<pc, ret>>
              ELSE
                  /\ pc' = "aborted"
                  /\ ret' = Outcome("findMostExpensiveNumber", <<>>, r.raised, None)
                  /\ UNCHANGED <<call, number_table, granted>>
    /\ lineno' = lineno + 1
    /\ ncalls' = ncalls + 1

\* the file is exhausted: lines 232-251
EndRun ==
    /\ pc = "running"
    /\ pc' = "finished"
    /\ LET r == MostExpensive(number_table)
       IN  ret' = Outcome("findMostExpensiveNumber", <<>>, r.raised, r.value)
    /\ UNCHANGED <<international_allowance, landline_mobile_allowance, number_table,
                   call, lineno, ncalls, granted>>

\* call logs are processed, one run after another
Next ==
    \/ StartRun
    \/ SkipBlankLine
    \/ \E line \in LogLines : ReadLine(line)
    \/ EndRun

Spec == Init /\ [][Next]_vars

\* calls are constructed from single records and priced
NextCall ==
    \/ \E line \in CallLines : FromCsv(line)
    \/ \E apply_allowance \in BOOLEAN : Cost(apply_allowance)

SpecCall == Init /\ [][NextCall]_vars

\* numbers are classified
NextClassify == \E s \in NumberStrings(MaxLen) : FromString(s)

SpecClassify == Init /\ [][NextClassify]_vars

-----------------------------------------------------------------------------
(* Properties *)

\* a run reached the end of its log, and the table then holds the totals
RunFinished == pc = "finished" /\ ret.op = "findMostExpensiveNumber"

\* C1: findMostExpensiveNumber over a log with no records returns None and
\* does not fail.
C1_EmptyLogReturnsNone ==
    (RunFinished /\ number_table = <<>>) => (ret.raised = "none" /\ ret.value = None)

\* entry i of the table has a positive total above every other entry's
StrictlyHighest(i) ==
    /\ number_table[i][2] > 0
    /\ \A j \in 1..Len(number_table) : j # i => number_table[j][2] < number_table[i][2]

\* C2: for a non-empty sequence of records, findMostExpensiveNumber returns a
\* result exactly when the highest total is positive and strictly above every
\* other number's total, and the result is that number with that total;
\* a tie of the two highest totals, or a highest total of 0, gives None.
C2_MostExpensive ==
    (RunFinished /\ number_table # <<>>) =>
        /\ ret.raised = "none"
        /\ (ret.value # None) <=> (\E i \in 1..Len(number_table) : StrictlyHighest(i))
        /\ \A i \in 1..Len(number_table) :
              StrictlyHighest(i) =>
                  /\ ret.value[1].PhoneNumber = number_table[i][1]
                  /\ ret.value[1].TotalAmount = FormatAmount(number_table[i][2])

\* C2's case: the two highest totals tie above a third, lower one, and the
\* run returned None.
C2_Witness ==
    /\ RunFinished
    /\ Len(number_table) = 3
    /\ \E i, j, k \in 1..3 :
          /\ i # j /\ i # k /\ j # k
          /\ number_table[i][2] = number_table[j][2]
          /\ number_table[i][2] > 0
          /\ number_table[k][2] < number_table[i][2]
    /\ ret.raised = "none"
    /\ ret.value = None

\* C6: every run of findMostExpensiveNumber starts with 10 international and
\* 100 landline-mobile free minutes, whatever ran before it in the process.
C6_RunStartsFresh ==
    (pc = "running" /\ lineno = 0) =>
        (international_allowance = 10 /\ landline_mobile_allowance = 100)

\* this step constructed a PhoneCall, which call' then is
Constructed == ncalls' = ncalls + 1 /\ pc' # "aborted" /\ ret'.raised = "none"

IsOutgoingTo(c, classes) == c.direction = "OUTGOING" /\ c.number.cls.name \in classes

\* f is the smaller of d and a
IsMin(f, d, a) == f <= d /\ f <= a /\ (f = d \/ f = a)

\* an outgoing call of class in classes takes min(duration, remaining) out
\* of the counter that stood at before and stands at after
Grants(classes, before, after) ==
    (Constructed /\ IsOutgoingTo(call', classes)) =>
        /\ IsMin(call'.free_minutes, call'.duration, before)
        /\ after = before - call'.free_minutes

\* a 6-minute outgoing international call
SixMinutes(c) ==
    c.constructed /\ IsOutgoingTo(c, {"InternationalNumber"}) /\ c.duration = 6

\* with a fresh allowance the first 6-minute international call is granted 6
\* minutes; the next one is granted 4, which leaves it 2 chargeable minutes
TwoSixMinuteCalls ==
    /\ (Constructed /\ SixMinutes(call') /\ international_allowance = 10) =>
          call'.free_minutes = 6
    /\ (Constructed /\ SixMinutes(call') /\ SixMinutes(call)
            /\ call.free_minutes = 6 /\ international_allowance = 4) =>
          (call'.free_minutes = 4 /\ call'.duration - call'.free_minutes = 2)

\* C7: each outgoing International call is granted min(duration,
\* international-remaining) free minutes and the counter drops by that much,
\* likewise Landline and Mobile calls from the shared counter; the free
\* minutes granted to a class sum to at most 10 and 100 and no counter goes
\* below 0; two 6-minute International calls on a fresh allowance are
\* granted 6 and 4 minutes.
C7_AllowanceDepletes ==
    /\ [](/\ international_allowance >= 0
          /\ landline_mobile_allowance >= 0
          /\ granted.international <= 10
          /\ granted.landline_mobile <= 100)
    /\ [][/\ Grants({"InternationalNumber"},
                    international_allowance, international_allowance')
          /\ Grants({"LandlineNumber", "MobileNumber"},
                    landline_mobile_allowance, landline_mobile_allowance')
          /\ TwoSixMinuteCalls]_vars

\* C7's case: the second of two 6-minute International calls got the last 4
\* free minutes.
C7_Witness ==
    /\ SixMinutes(call)
    /\ call.free_minutes = 4
    /\ granted.international = 10
    /\ international_allowance = 0

\* the category the classification rules give a normalized number
RuleCategory(n) ==
    IF StartsWith(n, <<"0", "0">>) THEN "InternationalNumber"
    ELSE IF StartsWith(n, <<"0", "1">>) \/ StartsWith(n, <<"0", "2">>) THEN "LandlineNumber"
    ELSE IF StartsWith(n, <<"0", "8", "0">>) THEN "FreeNumber"
    ELSE IF StartsWith(n, <<"0", "7">>)
            /\ ~((Len(n) >= 3 /\ n[3] = "6") /\ ~StartsWith(n, <<"0", "7", "6", "2", "4">>))
         THEN "MobileNumber"
    ELSE "InvalidNumber"

Categories ==
    {"InternationalNumber", "LandlineNumber", "MobileNumber", "FreeNumber", "InvalidNumber"}

\* C3: from_string never raises: for every input string it returns a number
\* of one of the five categories.
C3_NeverRaises ==
    ret.op = "from_string" =>
        (ret.raised = "none" /\ ret.value[1].cls.name \in Categories)

\* C4: for every input string from_string returns the category the ordered
\* rules give the normalized string.
C4_FollowsRules ==
    ret.op = "from_string" =>
        (ret.raised = "none" /\ ret.value[1].cls.name = RuleCategory(Normalize(ret.arg)))

\* C5: every failure of from_csv is a CallParseError.
C5_TypedParseError ==
    (ret.op = "from_csv" /\ ret.raised # "none") => ret.raised = "CallParseError"

\* the rates of a category: <<cost per minute, connection charge, divisor>>,
\* divisor 0 where the category has none
Rates(category) ==
    CASE category = "InternationalNumber" -> <<80, 50, 0>>
      [] category = "LandlineNumber" -> <<15, 0, 3>>
      [] category = "MobileNumber" -> <<30, 0, 3>>
      [] category = "FreeNumber" -> <<0, 0, 0>>
      [] category = "InvalidNumber" -> <<0, 0, 0>>

\* a time of day strictly before 08:00:00 or strictly after 20:00:00
StrictlyOutsidePeak(t) ==
    LET seconds == 3600 * t[1] + 60 * t[2] + t[3]
    IN  seconds < 28800 \/ seconds > 72000 \/ (seconds = 72000 /\ t[4] > 0)

\* connectionCharge + duration x costPerMinute, divided off-peak
FullPrice(c) ==
    LET r == Rates(c.number.cls.name)
        base == r[2] + c.duration * r[1]
    IN  IF r[3] # 0 /\ StrictlyOutsidePeak(c.start_time) THEN base \div r[3] ELSE base

\* C8: cost(apply_allowance=False) of an outgoing call is connectionCharge +
\* duration x costPerMinute, integer-divided by the divisor exactly when the
\* category has one and the start is strictly before 08:00:00 or strictly
\* after 20:00:00; an incoming call costs 0 whatever apply_allowance is.
C8_Cost ==
    ret.op = "cost" =>
        /\ call.direction = "INCOMING" => ret.value = <<0>>
        /\ (call.direction = "OUTGOING" /\ ret.arg = <<FALSE>>) =>
              ret.value = <<FullPrice(call)>>

\* C8's case: a mobile call of 13 minutes starting at exactly 20:00:00 is
\* priced at the peak rate.
C8_Witness ==
    /\ ret.op = "cost"
    /\ ret.arg = <<FALSE>>
    /\ call.direction = "OUTGOING"
    /\ call.number.cls.name = "MobileNumber"
    /\ call.start_time = <<20, 0, 0, 0>>
    /\ call.duration = 13
    /\ ret.value = <<390>>

\* C9: every call constructed has duration >= 0 and free minutes between 0
\* and its duration.
C9_RecordInvariant ==
    call.constructed =>
        /\ call.duration >= 0
        /\ call.has_free_minutes =>
              (0 <= call.free_minutes /\ call.free_minutes <= call.duration)

\* C10: an Incoming call, an outgoing FreePhone or Invalid call and a failed
\* construction leave both counters unchanged; an International call leaves
\* the landline-mobile counter and a Landline or Mobile call the
\* international counter unchanged; cost() leaves the counters and the call
\* unchanged.
C10_Frame ==
    [][/\ (ncalls' = ncalls + 1 /\ ret'.raised # "none") =>
              UNCHANGED <<international_allowance, landline_mobile_allowance>>
       /\ (Constructed /\ call'.direction = "INCOMING") =>
              UNCHANGED <<international_allowance, landline_mobile_allowance>>
       /\ (Constructed /\ call'.number.cls.name \in {"FreeNumber", "InvalidNumber"}) =>
              UNCHANGED <<international_allowance, landline_mobile_allowance>>
       /\ (Constructed /\ call'.number.cls.name = "InternationalNumber") =>
              UNCHANGED landline_mobile_allowance
       /\ (Constructed /\ call'.number.cls.name \in {"LandlineNumber", "MobileNumber"}) =>
              UNCHANGED international_allowance
       /\ ret'.op = "cost" =>
              UNCHANGED <<international_allowance, landline_mobile_allowance, call>>
      ]_vars

\* C10's case: an incoming call was constructed and priced after an earlier
\* call had used free minutes, and the counters stand where that call left them.
C10_Witness ==
    /\ ret.op = "cost"
    /\ call.direction = "INCOMING"
    /\ ncalls = 2
    /\ international_allowance + granted.international = 10
    /\ granted.international > 0

====
